---- MODULE Spec2Model ----
(***************************************************************************)
(* Deployment and rollback orchestration of the devops automation          *)
(* platform: scripts/deploy.py (src/deploy_script.py) and                   *)
(* scripts/rollback.py (src/rollback_script.py), run against a launch       *)
(* template, an auto scaling group, its instance refreshes and the S3       *)
(* bucket that holds the deployment history.                                *)
(*                                                                         *)
(* Text is modelled as a tuple of character codes, so that the boot script, *)
(* its base64 encoding and the substring test of the rollback are computed  *)
(* the way the scripts compute them.                                        *)
(***************************************************************************)
EXTENDS Integers, Sequences, FiniteSets, TLC

\* ------------------------------------------------------------------ text

\* Python's None (an argument that was not given, dict.get of a missing key).
None == "None"

\* The images a run may be given.
Images == {"app:1.0", "app:2.0"}

\* The character codes of the strings the runs format into scripts; str(None)
\* is "None".
Chars(s) ==
  CASE s = "app:1.0" -> <<97, 112, 112, 58, 49, 46, 48>>
    [] s = "app:2.0" -> <<97, 112, 112, 58, 50, 46, 48>>
    [] s = "dev" -> <<100, 101, 118>>
    [] s = "None" -> <<78, 111, 110, 101>>

\* --environment of the runs (one of dev, staging, production).
Environment == "dev"

\* The boot script of deploy, cut at the places where the f-string inserts
\* {image}, {self.environment} and {image} again; then the boot script of
\* rollback, cut at {target_image}, {self.environment} and {target_image}.
DeployScript1 ==
  <<
    35, 33, 47, 98, 105, 110, 47, 98, 97, 115, 104, 10, 115, 101, 116, 32,
    45, 101, 10, 10, 35, 32, 80, 117, 108, 108, 32, 110, 101, 119, 32, 105,
    109, 97, 103, 101, 10, 100, 111, 99, 107, 101, 114, 32, 112, 117, 108,
    108, 32
  >>

DeployScript2 ==
  <<
    10, 10, 35, 32, 83, 116, 111, 112, 32, 111, 108, 100, 32, 99, 111, 110,
    116, 97, 105, 110, 101, 114, 10, 100, 111, 99, 107, 101, 114, 32, 115,
    116, 111, 112, 32, 97, 112, 112, 32, 124, 124, 32, 116, 114, 117, 101,
    10, 100, 111, 99, 107, 101, 114, 32, 114, 109, 32, 97, 112, 112, 32, 124,
    124, 32, 116, 114, 117, 101, 10, 10, 35, 32, 82, 117, 110, 32, 110, 101,
    119, 32, 99, 111, 110, 116, 97, 105, 110, 101, 114, 10, 100, 111, 99,
    107, 101, 114, 32, 114, 117, 110, 32, 45, 100, 32, 92, 10, 32, 32, 45,
    45, 110, 97, 109, 101, 32, 97, 112, 112, 32, 92, 10, 32, 32, 45, 45, 114,
    101, 115, 116, 97, 114, 116, 32, 117, 110, 108, 101, 115, 115, 45, 115,
    116, 111, 112, 112, 101, 100, 32, 92, 10, 32, 32, 45, 112, 32, 51, 48,
    48, 48, 58, 51, 48, 48, 48, 32, 92, 10, 32, 32, 45, 101, 32, 78, 79, 68,
    69, 95, 69, 78, 86, 61
  >>

DeployScript3 ==
  <<
    32, 92, 10, 32, 32
  >>

DeployScript4 ==
  <<
    10, 10, 35, 32, 87, 97, 105, 116, 32, 102, 111, 114, 32, 104, 101, 97,
    108, 116, 104, 32, 99, 104, 101, 99, 107, 10, 102, 111, 114, 32, 105, 32,
    105, 110, 32, 123, 49, 46, 46, 51, 48, 125, 59, 32, 100, 111, 10, 32, 32,
    105, 102, 32, 99, 117, 114, 108, 32, 45, 102, 32, 104, 116, 116, 112, 58,
    47, 47, 108, 111, 99, 97, 108, 104, 111, 115, 116, 58, 51, 48, 48, 48,
    47, 104, 101, 97, 108, 116, 104, 32, 62, 32, 47, 100, 101, 118, 47, 110,
    117, 108, 108, 32, 50, 62, 38, 49, 59, 32, 116, 104, 101, 110, 10, 32,
    32, 32, 32, 101, 99, 104, 111, 32, 34, 65, 112, 112, 108, 105, 99, 97,
    116, 105, 111, 110, 32, 105, 115, 32, 104, 101, 97, 108, 116, 104, 121,
    33, 34, 10, 32, 32, 32, 32, 101, 120, 105, 116, 32, 48, 10, 32, 32, 102,
    105, 10, 32, 32, 115, 108, 101, 101, 112, 32, 50, 10, 100, 111, 110, 101,
    10, 10, 101, 99, 104, 111, 32, 34, 65, 112, 112, 108, 105, 99, 97, 116,
    105, 111, 110, 32, 102, 97, 105, 108, 101, 100, 32, 116, 111, 32, 115,
    116, 97, 114, 116, 34, 10, 101, 120, 105, 116, 32, 49, 10
  >>

RollbackScript1 ==
  <<
    35, 33, 47, 98, 105, 110, 47, 98, 97, 115, 104, 10, 115, 101, 116, 32,
    45, 101, 10, 100, 111, 99, 107, 101, 114, 32, 112, 117, 108, 108, 32
  >>

RollbackScript2 ==
  <<
    10, 100, 111, 99, 107, 101, 114, 32, 115, 116, 111, 112, 32, 97, 112,
    112, 32, 124, 124, 32, 116, 114, 117, 101, 10, 100, 111, 99, 107, 101,
    114, 32, 114, 109, 32, 97, 112, 112, 32, 124, 124, 32, 116, 114, 117,
    101, 10, 100, 111, 99, 107, 101, 114, 32, 114, 117, 110, 32, 45, 100, 32,
    92, 10, 32, 32, 45, 45, 110, 97, 109, 101, 32, 97, 112, 112, 32, 92, 10,
    32, 32, 45, 45, 114, 101, 115, 116, 97, 114, 116, 32, 117, 110, 108, 101,
    115, 115, 45, 115, 116, 111, 112, 112, 101, 100, 32, 92, 10, 32, 32, 45,
    112, 32, 51, 48, 48, 48, 58, 51, 48, 48, 48, 32, 92, 10, 32, 32, 45, 101,
    32, 78, 79, 68, 69, 95, 69, 78, 86, 61
  >>

RollbackScript3 ==
  <<
    32, 92, 10, 32, 32
  >>

RollbackScript4 ==
  <<
    10
  >>

DeployScript(image, environment) ==
  DeployScript1 \o image \o DeployScript2 \o environment \o DeployScript3
    \o image \o DeployScript4

RollbackScript(image, environment) ==
  RollbackScript1 \o image \o RollbackScript2 \o environment
    \o RollbackScript3 \o image \o RollbackScript4

\* The base64 alphabet: the character code of sextet n.
B64Char(n) ==
  IF n < 26 THEN 65 + n
  ELSE IF n < 52 THEN 97 + (n - 26)
  ELSE IF n < 62 THEN 48 + (n - 52)
  ELSE IF n = 62 THEN 43 ELSE 47

\* The padding character '='.
B64Pad == 61

\* The byte at place i of bytes, 0 past its end (the zero bits base64 fills
\* a last group with).
ByteAt(bytes, i) == IF i <= Len(bytes) THEN bytes[i] ELSE 0

\* base64.b64encode(bytes).decode(): every group of three bytes gives four
\* characters, one per 6 bits; a last group of one or two bytes gives two or
\* three characters and is padded with '=' to four.
B64Encode(bytes) ==
  [k \in 1..(4 * ((Len(bytes) + 2) \div 3)) |->
    LET g == (k - 1) \div 4
        j == (k - 1) % 4
        w == ByteAt(bytes, 3 * g + 1) * 65536 + ByteAt(bytes, 3 * g + 2) * 256
               + ByteAt(bytes, 3 * g + 3)
        have == Len(bytes) - 3 * g
    IN  IF j > have THEN B64Pad
        ELSE B64Char(CASE j = 0 -> w \div 262144
                       [] j = 1 -> (w \div 4096) % 64
                       [] j = 2 -> (w \div 64) % 64
                       [] j = 3 -> w % 64)]

\* Python's `needle in haystack` for two strings.
Contains(haystack, needle) ==
  \E i \in 1..(Len(haystack) - Len(needle) + 1) :
    SubSeq(haystack, i, i + Len(needle) - 1) = needle

\* ---------------------------------------------------------------- bounds

\* Runs (deploy or rollback) started in one behaviour.
MaxRuns == 1

\* Cloud calls of the orchestration (every call but put_object) that raise in
\* one behaviour.
MaxFaults == 1

\* ----------------------------------------------------------------- state

\* The processes that run an entry point.  SeqProcs are the ones Spec starts:
\* one orchestration runs at a time per environment.
Procs == {"A", "B"}

SeqProcs == {"A"}

\* --version of deploy, --previous-version of rollback (None: not given).
Releases == {<<"1.0", "app:1.0">>, <<"2.0", "app:2.0">>}

PreviousVersions == {"7"}

\* What describe_target_health reports once a refresh has replaced the
\* instances: [healthy, total].
TargetHealths == {[healthy |-> 3, total |-> 3], [healthy |-> 2, total |-> 3]}

VARIABLES
  lt,          \* the launch template's versions, in version order
  asg,         \* the version the auto scaling group's launch template names
  refreshes,   \* refreshes[id]: the instance refresh with that id
  targets,     \* the target group's health: [healthy, total]
  deployments, \* the objects under deployments/, in key order
  rollbacks,   \* the objects under rollbacks/, in key order
  now,         \* datetime.now(), in ticks
  run,         \* run[p]: the local state of process p's run
  runs,        \* runs started
  faults       \* cloud calls that raised

vars ==
  <<lt, asg, refreshes, targets, deployments, rollbacks, now, run, runs, faults>>

\* dict.get(key): None for a missing key.
Get(d, key) == IF key \in DOMAIN d THEN d[key] ELSE None

\* ------------------------------------------------------- history store

DeploymentRecordSwapped(version, image, status) ==
  [timestamp |-> now, environment |-> Environment, version |-> image,
   image |-> version, status |-> status]

\* The record create_deployment_record writes (its timestamp and its key are
\* two datetime.now() of the same tick).
DeploymentRecord(version, image, status) ==
  [timestamp |-> now, environment |-> Environment, version |-> version,
   image |-> image, status |-> status]

\* The record record_rollback writes.
RollbackRecord(version, image) ==
  [timestamp |-> now, environment |-> Environment, action |-> "rollback",
   target_version |-> version, target_image |-> image]

\* s3.put_object(Key = <prefix>/<now>.json, Body = body): the object at that
\* key is replaced when there is one, and added otherwise.  Keys grow with the
\* clock, so a new key is the last in key order.
PutObject(objects, body) ==
  LET object == [Key |-> now, LastModified |-> now, readable |-> TRUE,
                 data |-> body]
  IN  IF \E i \in 1..Len(objects) : objects[i].Key = now
      THEN [i \in 1..Len(objects) |->
              IF objects[i].Key = now THEN object ELSE objects[i]]
      ELSE Append(objects, object)

\* The scan window of find_previous_successful_deployment.
HistoryLimit == 20

\* s3.list_objects_v2(Prefix, MaxKeys = limit): the first limit objects in
\* key order.
ListObjects(objects, limit) ==
  SubSeq(objects, 1, IF Len(objects) < limit THEN Len(objects) ELSE limit)

\* sorted(contents, key = LastModified, reverse = True): a stable sort, so
\* objects of equal LastModified keep their listing order.
SortedByLastModified(contents) ==
  LET before(i, j) ==
        \/ contents[i].LastModified > contents[j].LastModified
        \/ contents[i].LastModified = contents[j].LastModified /\ i < j
      rank(j) == Cardinality({i \in 1..Len(contents) : before(i, j)}) + 1
  IN  [k \in 1..Len(contents) |->
         contents[CHOOSE j \in 1..Len(contents) : rank(j) = k]]

\* The objects a failed get_object or json.loads drops from the history.
Readable(objects) ==
  LET kept == SelectSeq(objects, LAMBDA object : object.readable)
  IN  [i \in 1..Len(kept) |-> kept[i].data]

\* get_deployment_history(limit).
get_deployment_history(limit) ==
  Readable(SortedByLastModified(ListObjects(deployments, limit)))

FirstDeployment(history) == IF history # << >> THEN 1 ELSE 0

\* find_previous_successful_deployment over a history: the index of the
\* first deployment whose status is success, 0 when there is none.
FirstSuccess(history) ==
  IF \E i \in 1..Len(history) : Get(history[i], "status") = "success"
  THEN CHOOSE i \in 1..Len(history) :
         /\ Get(history[i], "status") = "success"
         /\ \A j \in 1..(i - 1) : Get(history[j], "status") # "success"
  ELSE 0

\* --------------------------------------------------- launch template

\* A version's user data is kept in the state as the script and the image it
\* was generated from; UserDataText gives its characters, the base64 text
\* that the scripts hand to EC2 and that EC2 hands back.

\* _generate_user_data(image) of deploy.
GenerateUserData(image) == [script |-> "deploy", image |-> image]

\* The user data create_rollback_version builds.
RollbackUserData(image) == [script |-> "rollback", image |-> image]

\* No user data: ''.
NoUserData == [script |-> "", image |-> ""]

\* base64.b64encode(script.encode()).decode() of either script.
UserDataText(user_data) ==
  CASE user_data.script = "deploy" ->
         B64Encode(DeployScript(Chars(user_data.image), Chars(Environment)))
    [] user_data.script = "rollback" ->
         B64Encode(RollbackScript(Chars(user_data.image), Chars(Environment)))
    [] user_data.script = "" -> << >>

CreateVersionInPlace(versions, user_data) ==
  [i \in 1..Len(versions) |->
     IF i = Len(versions)
     THEN [VersionNumber |-> i, UserData |-> user_data] ELSE versions[i]]

\* The user data the scripts can store, and the text of each, computed once.
UserDatas ==
  {GenerateUserData(image) : image \in Images}
    \cup {RollbackUserData(image) : image \in Images} \cup {NoUserData}

UserDataTexts ==
  [user_data \in UserDatas |-> UserDataText(user_data) \o << >>]

\* ec2.create_launch_template_version: the versions with one more, numbered
\* after the last.
CreateVersion(versions, user_data) ==
  Append(versions, [VersionNumber |-> Len(versions) + 1, UserData |-> user_data])

\* version.get('LaunchTemplateData', {}).get('UserData', '').
UserDataOf(version) ==
  IF "UserData" \in DOMAIN version THEN version.UserData ELSE NoUserData

\* find_matching_launch_template(versions, target_image): the number of the
\* first version whose user data contains the image, 0 for None.  With no
\* image (None) the `in` test raises TypeError at the first version.
FindMatchingRaises(versions, target_image) ==
  target_image = None /\ versions # << >>

find_matching_launch_template(versions, target_image) ==
  LET hit(i) ==
        Contains(UserDataTexts[UserDataOf(versions[i])], Chars(target_image))
  IN  IF \E i \in 1..Len(versions) : hit(i)
      THEN versions[CHOOSE i \in 1..Len(versions) :
                      hit(i) /\ \A j \in 1..(i - 1) : ~hit(j)].VersionNumber
      ELSE 0

\* ------------------------------------------------------------- runs

\* The value of `deployment` when no deployment was looked up or found.
NoDeployment == [absent |-> TRUE]

\* A process that runs nothing.  raised: an exception reached main's except
\* clause; uncaught: an exception ended the process.  The fields after them
\* record what the run did: whether a cloud call of it raised, the
\* describe_instance_refreshes calls of monitor_refresh, the objects in the
\* bucket when it started, whether it read the history ("read", or "unread"
\* when list_objects_v2 raised), the deployment it selected, the
\* version it created, the last refresh status monitor_refresh saw, the
\* result of verify_deployment (which no entry point calls), the records it
\* wrote and the put_object calls that raised; then the launch template
\* versions handed to find_matching_launch_template and what it returned.
\* The last lines are the
\* locals of verify_deployment and of the health checker: the value returned,
\* the polls that found every target healthy, the arguments, start_time,
\* attempts and elapsed of wait_for_healthy, check_count and failed_checks of
\* continuous_monitoring, the last response and what response.json() raises.
Idle ==
  [pc |-> "idle", kind |-> None, version |-> None, image |-> None,
   target_version |-> None, target_image |-> None, lt_version |-> 0,
   refresh_id |-> 0, status |-> None, exit |-> -1, raised |-> FALSE,
   uncaught |-> FALSE, faulted |-> FALSE, polls |-> 0, stored_before |-> 0,
   history |-> None, selected |-> NoDeployment, created |-> 0, refresh |-> None,
   verified |-> None, puts |-> << >>, put_raised |-> 0,
   described |-> 0, matched |-> 0,
   result |-> None, healthy_polls |-> 0, timeout |-> 0, interval |-> 0,
   duration |-> 0, start_time |-> 0, attempts |-> 0, elapsed |-> 0,
   check_count |-> 0, failed_checks |-> 0, response |-> None,
   json_error |-> None]

\* One more cloud call may raise.
MayRaise == faults < MaxFaults

Goto(p, pc) == run' = [run EXCEPT ![p].pc = pc]

\* Polls of one refresh that find it still in progress.
MaxPolls == 1

Raise == faults' = faults + 1

\* ------------------------------------------------------------ deploy

\* A deploy run that has parsed its arguments.
DeployRun(version, image) ==
  [Idle EXCEPT !.pc = "d_describe", !.kind = "deploy",
               !.version = version, !.image = image,
               !.stored_before = Len(deployments) + Len(rollbacks)]

\* main of deploy: parse the arguments and call rolling_deployment, which
\* calls update_launch_template.
deploy_main(p, version, image) ==
  /\ run[p].pc \in {"idle", "done"}
  /\ runs < MaxRuns
  /\ runs' = runs + 1
  /\ now' = now + 1
  /\ run' = [run EXCEPT ![p] = DeployRun(version, image)]
  /\ UNCHANGED <<lt, asg, refreshes, targets, deployments, rollbacks, faults>>

\* update_launch_template: describe_auto_scaling_groups.  No group: return
\* False, and rolling_deployment returns False to main.
update_launch_template_describe(p) ==
  /\ run[p].pc = "d_describe"
  /\ \/ Goto(p, "d_create")
     \/ run' = [run EXCEPT ![p].pc = "d_record", ![p].status = "failed"]
  /\ UNCHANGED <<lt, asg, refreshes, targets, deployments, rollbacks, now,
                 runs, faults>>

\* update_launch_template: create_launch_template_version with the user data
\* generated for the image.
update_launch_template_create(p) ==
  /\ run[p].pc = "d_create"
  /\ lt' = CreateVersion(lt, GenerateUserData(run[p].image))
  /\ run' = [run EXCEPT ![p].pc = "d_update",
                        ![p].lt_version = Len(lt) + 1,
                        ![p].created = Len(lt) + 1]
  /\ UNCHANGED <<asg, refreshes, targets, deployments, rollbacks, now, runs,
                 faults>>

update_launch_template_keep(p) ==
  /\ run[p].pc = "d_update"
  /\ Goto(p, "d_start")
  /\ UNCHANGED <<lt, asg, refreshes, targets, deployments, rollbacks, now,
                 runs, faults>>

\* update_launch_template: update_auto_scaling_group to the new version.
update_launch_template_update(p) ==
  /\ run[p].pc = "d_update"
  /\ asg' = run[p].lt_version
  /\ Goto(p, "d_start")
  /\ UNCHANGED <<lt, refreshes, targets, deployments, rollbacks, now, runs,
                 faults>>

\* start_instance_refresh: a new refresh of the group, on the version the
\* group names now.
StartRefresh == Append(refreshes, [Status |-> "Pending", version |-> asg])

rolling_deployment_start(p) ==
  /\ run[p].pc = "d_start"
  /\ refreshes' = StartRefresh
  /\ run' = [run EXCEPT ![p].pc = "d_monitor",
                        ![p].refresh_id = Len(refreshes) + 1]
  /\ UNCHANGED <<lt, asg, targets, deployments, rollbacks, now, runs, faults>>

MonitorResultNoCancelled(status) ==
  IF status = "NotFound" THEN "False"
  ELSE IF status = "Successful" THEN "True"
  ELSE IF status = "Failed" THEN "False"
  ELSE "sleep"

\* What one pass of monitor_refresh's loop does with the described refresh:
\* "True", "False", or "sleep" and poll again.
MonitorResult(status) ==
  IF status = "NotFound" THEN "False"
  ELSE IF status = "Successful" THEN "True"
  ELSE IF status \in {"Cancelled", "Failed"} THEN "False"
  ELSE "sleep"

DeployStatusError(success) == IF success = "True" THEN "success" ELSE "error"

\* The status to record for the value rolling_deployment returned.
DeployStatus(success) == IF success = "True" THEN "success" ELSE "failed"

\* monitor_refresh of deploy: one describe_instance_refreshes, and the sleep
\* before the next one when the refresh is still in progress.
deploy_monitor_refresh(p) ==
  /\ run[p].pc = "d_monitor"
  /\ LET status == refreshes[run[p].refresh_id].Status
         result == MonitorResult(status)
     IN  IF result = "sleep"
         THEN /\ run[p].polls < MaxPolls
              /\ run' = [run EXCEPT ![p].polls = @ + 1]
         ELSE run' = [run EXCEPT ![p].pc = "d_record", ![p].refresh = status,
                                 ![p].polls = @ + 1,
                                 ![p].status = DeployStatus(result)]
  /\ UNCHANGED <<lt, asg, refreshes, targets, deployments, rollbacks, now,
                 runs, faults>>

\* A cloud call of rolling_deployment raises: main's except clause runs.
deploy_call_raises(p) ==
  /\ run[p].pc \in {"d_describe", "d_create", "d_update", "d_start", "d_monitor"}
  /\ MayRaise
  /\ Raise
  /\ run' = [run EXCEPT ![p].pc = "d_except", ![p].raised = TRUE,
                        ![p].faulted = TRUE]
  /\ UNCHANGED <<lt, asg, refreshes, targets, deployments, rollbacks, now, runs>>

\* The exit code main of deploy ends with after it recorded a status.
DeployExit(status) == IF status = "success" THEN 0 ELSE 1

AfterSysExitCaught == "d_except"

\* Where main of deploy is after sys.exit in its try block: SystemExit is no
\* Exception, so `except Exception` does not catch it and the process ends.
AfterSysExit == "done"

\* main: create_deployment_record(version, image, status) in the try block,
\* then sys.exit.
deploy_record(p) ==
  /\ run[p].pc = "d_record"
  /\ LET body == DeploymentRecord(run[p].version, run[p].image, run[p].status)
     IN  /\ deployments' = PutObject(deployments, body)
         /\ run' = [run EXCEPT ![p].pc = AfterSysExit,
                               ![p].exit = DeployExit(run[p].status),
                               ![p].puts = Append(@, body)]
  /\ UNCHANGED <<lt, asg, refreshes, targets, rollbacks, now, runs, faults>>

\* put_object raises in the try block: the exception reaches main's except
\* clause like any other.
deploy_record_raises(p) ==
  /\ run[p].pc = "d_record"
  /\ run' = [run EXCEPT ![p].pc = "d_except", ![p].raised = TRUE,
                        ![p].put_raised = @ + 1]
  /\ UNCHANGED <<lt, asg, refreshes, targets, deployments, rollbacks, now,
                 runs, faults>>

\* main's except clause: create_deployment_record(version, image, 'error'),
\* then sys.exit(1).
deploy_except(p) ==
  /\ run[p].pc = "d_except"
  /\ LET body == DeploymentRecord(run[p].version, run[p].image, "error")
     IN  /\ deployments' = PutObject(deployments, body)
         /\ run' = [run EXCEPT ![p].pc = "done", ![p].status = "error",
                               ![p].exit = 1, ![p].puts = Append(@, body)]
  /\ UNCHANGED <<lt, asg, refreshes, targets, rollbacks, now, runs, faults>>

\* put_object raises in the except clause: nothing catches it, the
\* interpreter prints the traceback and exits with code 1.
deploy_except_raises(p) ==
  /\ run[p].pc = "d_except"
  /\ run' = [run EXCEPT ![p].pc = "done", ![p].status = "error",
                        ![p].exit = 1, ![p].uncaught = TRUE,
                        ![p].put_raised = @ + 1]
  /\ UNCHANGED <<lt, asg, refreshes, targets, deployments, rollbacks, now,
                 runs, faults>>

\* ---------------------------------------------------------- rollback

\* `not target_version and not target_image`: neither argument was given
\* (the versions and images drawn are neither 0 nor empty).
NoTarget(target_version, target_image) ==
  target_version = None /\ target_image = None

\* main of rollback: parse the arguments and call rollback_to_version.
rollback_main(p, previous_version, image) ==
  /\ run[p].pc \in {"idle", "done"}
  /\ runs < MaxRuns
  /\ runs' = runs + 1
  /\ now' = now + 1
  /\ run' = [run EXCEPT ![p] =
       [Idle EXCEPT !.pc = IF NoTarget(previous_version, image)
                           THEN "r_history" ELSE "r_describe",
                    !.kind = "rollback",
                    !.version = previous_version, !.image = image,
                    !.target_version = previous_version,
                    !.target_image = image,
                    !.stored_before = Len(deployments) + Len(rollbacks)]]
  /\ UNCHANGED <<lt, asg, refreshes, targets, deployments, rollbacks, faults>>

\* rollback_to_version returns False to main, which exits with code 1.
ReturnFalse(p) == run' = [run EXCEPT ![p].pc = "done", ![p].exit = 1]

\* An exception leaves rollback_to_version: main's except clause logs it and
\* exits with code 1.
MainExcept(p) ==
  run' = [run EXCEPT ![p].pc = "done", ![p].exit = 1, ![p].raised = TRUE]

\* The same for the exception of a cloud call that raised.
CallRaised(p) ==
  run' = [run EXCEPT ![p].pc = "done", ![p].exit = 1, ![p].raised = TRUE,
                     ![p].faulted = TRUE]

\* rollback_to_version without a target: find_previous_successful_deployment
\* over get_deployment_history(limit=20).  No successful deployment: return
\* False.  A successful deployment without version, image or timestamp: the
\* log lines raise KeyError, which main catches.
rollback_find_previous(p) ==
  /\ run[p].pc = "r_history"
  /\ \E history \in {get_deployment_history(HistoryLimit)} :
       LET i == FirstSuccess(history)
       IN  IF i = 0
           THEN run' = [run EXCEPT ![p].pc = "done", ![p].exit = 1,
                                   ![p].history = "read"]
           ELSE IF {"version", "image", "timestamp"} \subseteq DOMAIN history[i]
           THEN run' = [run EXCEPT ![p].pc = "r_describe",
                          ![p].history = "read",
                          ![p].selected = history[i],
                          ![p].target_version = history[i].version,
                          ![p].target_image = history[i].image]
           ELSE run' = [run EXCEPT ![p].pc = "done", ![p].exit = 1,
                                   ![p].history = "read", ![p].raised = TRUE]
  /\ UNCHANGED <<lt, asg, refreshes, targets, deployments, rollbacks, now,
                 runs, faults>>

\* list_objects_v2 raises: get_deployment_history catches it and returns [],
\* so no deployment is found and the run returns False.
rollback_history_raises(p) ==
  /\ run[p].pc = "r_history"
  /\ MayRaise
  /\ Raise
  /\ run' = [run EXCEPT ![p].pc = "done", ![p].exit = 1,
                        ![p].history = "unread", ![p].faulted = TRUE]
  /\ UNCHANGED <<lt, asg, refreshes, targets, deployments, rollbacks, now, runs>>

\* rollback_to_version: describe_auto_scaling_groups.  No group: return False.
rollback_describe(p) ==
  /\ run[p].pc = "r_describe"
  /\ \/ Goto(p, "r_versions")
     \/ ReturnFalse(p)
  /\ UNCHANGED <<lt, asg, refreshes, targets, deployments, rollbacks, now,
                 runs, faults>>

\* rollback_to_version: get_launch_template_versions (all of them: there are
\* fewer than MaxResults=100), then
\* find_matching_launch_template; the TypeError of a None image reaches main,
\* which exits with code 1.
rollback_find_matching(p) ==
  /\ run[p].pc = "r_versions"
  /\ IF FindMatchingRaises(lt, run[p].target_image)
     THEN MainExcept(p)
     ELSE LET target_lt_version ==
                find_matching_launch_template(lt, run[p].target_image)
          IN  IF target_lt_version = 0
              THEN run' = [run EXCEPT ![p].pc = "r_create",
                                      ![p].described = Len(lt)]
              ELSE run' = [run EXCEPT ![p].pc = "r_update",
                                      ![p].described = Len(lt),
                                      ![p].matched = target_lt_version,
                                      ![p].lt_version = target_lt_version]
  /\ UNCHANGED <<lt, asg, refreshes, targets, deployments, rollbacks, now,
                 runs, faults>>

\* create_rollback_version: create_launch_template_version with the user data
\* built for the target image.
create_rollback_version(p) ==
  /\ run[p].pc = "r_create"
  /\ lt' = CreateVersion(lt, RollbackUserData(run[p].target_image))
  /\ run' = [run EXCEPT ![p].pc = "r_update",
                        ![p].lt_version = Len(lt) + 1,
                        ![p].created = Len(lt) + 1]
  /\ UNCHANGED <<asg, refreshes, targets, deployments, rollbacks, now, runs,
                 faults>>

\* rollback_to_version: update_auto_scaling_group to the target version.
rollback_update(p) ==
  /\ run[p].pc = "r_update"
  /\ asg' = run[p].lt_version
  /\ Goto(p, "r_start")
  /\ UNCHANGED <<lt, refreshes, targets, deployments, rollbacks, now, runs,
                 faults>>

\* rollback_to_version: start_instance_refresh.
rollback_start(p) ==
  /\ run[p].pc = "r_start"
  /\ refreshes' = StartRefresh
  /\ run' = [run EXCEPT ![p].pc = "r_monitor",
                        ![p].refresh_id = Len(refreshes) + 1]
  /\ UNCHANGED <<lt, asg, targets, deployments, rollbacks, now, runs, faults>>

\* monitor_refresh of rollback: one describe_instance_refreshes.  On False
\* the run logs the failure and returns False.
rollback_monitor_refresh(p) ==
  /\ run[p].pc = "r_monitor"
  /\ LET status == refreshes[run[p].refresh_id].Status
         result == MonitorResult(status)
     IN  IF result = "sleep"
         THEN /\ run[p].polls < MaxPolls
              /\ run' = [run EXCEPT ![p].polls = @ + 1]
         ELSE IF result = "True"
         THEN run' = [run EXCEPT ![p].pc = "r_record", ![p].refresh = status,
                                 ![p].polls = @ + 1]
         ELSE run' = [run EXCEPT ![p].pc = "done", ![p].exit = 1,
                                 ![p].refresh = status, ![p].polls = @ + 1]
  /\ UNCHANGED <<lt, asg, refreshes, targets, deployments, rollbacks, now,
                 runs, faults>>

\* A cloud call of rollback_to_version raises: main's except clause exits
\* with code 1.
rollback_call_raises(p) ==
  /\ run[p].pc \in {"r_describe", "r_versions", "r_create", "r_update",
                    "r_start", "r_monitor"}
  /\ MayRaise
  /\ Raise
  /\ CallRaised(p)
  /\ UNCHANGED <<lt, asg, refreshes, targets, deployments, rollbacks, now, runs>>

record_rollback_under_deployments(p) ==
  /\ run[p].pc = "r_record"
  /\ LET body == RollbackRecord(run[p].target_version, run[p].target_image)
     IN  /\ deployments' = PutObject(deployments, body)
         /\ run' = [run EXCEPT ![p].pc = "done", ![p].exit = 0,
                               ![p].puts = Append(@, body)]
  /\ UNCHANGED <<lt, asg, refreshes, targets, rollbacks, now, runs, faults>>

\* rollback_to_version after a successful refresh: record_rollback, return
\* True, and main exits with code 0.
record_rollback(p) ==
  /\ run[p].pc = "r_record"
  /\ LET body == RollbackRecord(run[p].target_version, run[p].target_image)
     IN  /\ rollbacks' = PutObject(rollbacks, body)
         /\ run' = [run EXCEPT ![p].pc = "done", ![p].exit = 0,
                               ![p].puts = Append(@, body)]
  /\ UNCHANGED <<lt, asg, refreshes, targets, deployments, now, runs, faults>>

\* put_object raises in record_rollback: main's except clause exits with
\* code 1.
record_rollback_raises(p) ==
  /\ run[p].pc = "r_record"
  /\ run' = [run EXCEPT ![p].pc = "done", ![p].exit = 1,
                        ![p].raised = TRUE, ![p].put_raised = @ + 1]
  /\ UNCHANGED <<lt, asg, refreshes, targets, deployments, rollbacks, now,
                 runs, faults>>

\* ------------------------------------------------------- the cloud

\* A run is in monitor_refresh on refresh id.  The cloud's steps are taken
\* for watched refreshes only: no call of the scripts reads any other.
Watched(id) ==
  \E p \in Procs : run[p].pc \in {"d_monitor", "r_monitor"} /\ run[p].refresh_id = id

\* The auto scaling service moves a refresh forward: Pending, InProgress,
\* then Successful (the instances replaced, with some target health), Failed
\* or Cancelled.
refresh_progress(id) ==
  /\ Watched(id)
  /\ \/ /\ refreshes[id].Status = "Pending"
        /\ refreshes' = [refreshes EXCEPT ![id].Status = "InProgress"]
        /\ UNCHANGED targets
     \/ /\ refreshes[id].Status = "InProgress"
        /\ \E h \in TargetHealths :
             /\ refreshes' = [refreshes EXCEPT ![id].Status = "Successful"]
             /\ targets' = h
     \/ /\ refreshes[id].Status = "InProgress"
        /\ \E s \in {"Failed", "Cancelled"} :
             refreshes' = [refreshes EXCEPT ![id].Status = s]
        /\ UNCHANGED targets
  /\ UNCHANGED <<lt, asg, deployments, rollbacks, now, run, runs, faults>>

\* The refresh id is no longer known: describe_instance_refreshes returns no
\* refresh for it.
refresh_not_found(id) ==
  /\ Watched(id)
  /\ refreshes[id].Status \in {"Pending", "InProgress"}
  /\ refreshes' = [refreshes EXCEPT ![id].Status = "NotFound"]
  /\ UNCHANGED <<lt, asg, targets, deployments, rollbacks, now, run, runs,
                 faults>>

\* ------------------------------------------------------ specification

\* An object of the history as an earlier deploy run wrote it at tick i.
HistoryObject(i, version, image, status) ==
  [Key |-> i, LastModified |-> i, readable |-> TRUE,
   data |-> [timestamp |-> i, environment |-> Environment,
             version |-> version, image |-> image, status |-> status]]

\* The histories a behaviour starts with, oldest object first: none; two
\* successful deployments and a failed one after them; one successful
\* deployment followed by a document without status, an object that cannot
\* be read and an error; a failed deployment and an error, none successful;
\* and one successful deployment more than the scan window holds.
ImageOf(i) == IF i % 2 = 1 THEN "app:1.0" ELSE "app:2.0"

Histories ==
  { << >>,
    <<HistoryObject(1, "1.0", "app:1.0", "success"),
      HistoryObject(2, "2.0", "app:2.0", "success"),
      HistoryObject(3, "3.0", "app:1.0", "failed")>>,
    <<HistoryObject(1, "1.0", "app:1.0", "success"),
      [Key |-> 2, LastModified |-> 2, readable |-> TRUE,
       data |-> [timestamp |-> 2, environment |-> Environment,
                 version |-> "2.0", image |-> "app:2.0"]],
      [Key |-> 3, LastModified |-> 3, readable |-> FALSE,
       data |-> [timestamp |-> 3]],
      HistoryObject(4, "3.0", "app:2.0", "error")>>,
    <<HistoryObject(1, "1.0", "app:1.0", "failed"),
      HistoryObject(2, "2.0", "app:2.0", "error")>>,
    [i \in 1..(HistoryLimit + 1) |->
       HistoryObject(i, ToString(i), ImageOf(i), "success")] }

\* The launch template as provisioned (version 1, without user data), after
\* a deploy of app:1.0 (version 2) and a rollback to app:2.0 (version 3,
\* which the group runs).
LaunchTemplate ==
  CreateVersion(
    CreateVersion(<<[VersionNumber |-> 1]>>, GenerateUserData("app:1.0")),
    RollbackUserData("app:2.0"))

Init ==
  /\ lt = LaunchTemplate
  /\ asg = Len(LaunchTemplate)
  /\ refreshes = << >>
  /\ targets = [healthy |-> 3, total |-> 3]
  /\ deployments \in Histories
  /\ rollbacks = << >>
  /\ now = Len(deployments)
  /\ run = [p \in Procs |-> Idle]
  /\ runs = 0
  /\ faults = 0

\* The steps of a deploy run after main has parsed its arguments.
DeploySteps(p) ==
  \/ update_launch_template_describe(p)
  \/ update_launch_template_create(p)
  \/ update_launch_template_update(p)
  \/ rolling_deployment_start(p)
  \/ deploy_monitor_refresh(p)
  \/ deploy_call_raises(p)
  \/ deploy_record(p)
  \/ deploy_except(p)

Deploy(p) ==
  \/ \E release \in Releases : deploy_main(p, release[1], release[2])
  \/ DeploySteps(p)

\* The steps of a rollback run after main has parsed its arguments.
RollbackSteps(p) ==
  \/ rollback_find_previous(p)
  \/ rollback_history_raises(p)
  \/ rollback_describe(p)
  \/ rollback_find_matching(p)
  \/ create_rollback_version(p)
  \/ rollback_update(p)
  \/ rollback_start(p)
  \/ rollback_monitor_refresh(p)
  \/ rollback_call_raises(p)
  \/ record_rollback(p)

Rollback(p) ==
  \/ \E previous_version \in PreviousVersions \cup {None},
        image \in Images \cup {None} :
       rollback_main(p, previous_version, image)
  \/ RollbackSteps(p)

Next ==
  \/ \E p \in SeqProcs : Deploy(p) \/ Rollback(p)
  \/ \E id \in 1..Len(refreshes) : refresh_progress(id)
  \/ \E id \in 1..Len(refreshes) : refresh_not_found(id)

\* The runs with a history store that accepts every write.
Spec == Init /\ [][Next]_vars

\* The runs with a history store whose put_object may raise.
PutRaises(p) ==
  \/ deploy_record_raises(p)
  \/ deploy_except_raises(p)
  \/ record_rollback_raises(p)

NextS3 == Next \/ \E p \in SeqProcs : PutRaises(p)

SpecS3 == Init /\ [][NextS3]_vars

\* ------------------------------------------------------- health gate

\* What describe_target_health may report at a poll of verify_deployment:
\* [healthy, total], among them a target group without targets.
Healths ==
  TargetHealths \cup {[healthy |-> 0, total |-> 0], [healthy |-> 0, total |-> 3]}

\* max_attempts of verify_deployment.
max_attempts == 20

\* The sleep between two polls of verify_deployment, in seconds.
VerifySleep == 15

AllHealthyOrNone(h) == h.healthy = h.total

\* `healthy == total and total > 0`.
AllHealthy(h) == h.healthy = h.total /\ h.total > 0

\* A call of verify_deployment(target_group_arn).
verify_deployment_call(p) ==
  /\ run[p].pc \in {"idle", "done"}
  /\ runs < MaxRuns
  /\ runs' = runs + 1
  /\ run' = [run EXCEPT ![p] = [Idle EXCEPT !.pc = "v_poll", !.kind = "verify"]]
  /\ UNCHANGED <<lt, asg, refreshes, targets, deployments, rollbacks, now,
                 faults>>

\* One pass of verify_deployment's loop: describe_target_health, return True
\* when every target is healthy and there is one, sleep unless this was the
\* last attempt; after the last attempt return False.
verify_deployment(p) ==
  /\ run[p].pc = "v_poll"
  /\ \E h \in Healths :
       LET attempt == run[p].polls
           counted == IF h.total > 0 /\ h.healthy = h.total THEN 1 ELSE 0
       IN  /\ targets' = h
           /\ IF AllHealthy(h)
              THEN /\ run' = [run EXCEPT ![p].pc = "done", ![p].polls = @ + 1,
                                         ![p].healthy_polls = @ + counted,
                                         ![p].result = "True"]
                   /\ UNCHANGED now
              ELSE IF attempt < max_attempts - 1
              THEN /\ run' = [run EXCEPT ![p].polls = @ + 1,
                                         ![p].healthy_polls = @ + counted]
                   /\ now' = now + VerifySleep
              ELSE /\ run' = [run EXCEPT ![p].pc = "done", ![p].polls = @ + 1,
                                         ![p].healthy_polls = @ + counted,
                                         ![p].result = "False"]
                   /\ UNCHANGED now
  /\ UNCHANGED <<lt, asg, refreshes, deployments, rollbacks, runs, faults>>

\* describe_target_health raises: the exception leaves verify_deployment.
verify_deployment_raises(p) ==
  /\ run[p].pc = "v_poll"
  /\ MayRaise
  /\ Raise
  /\ run' = [run EXCEPT ![p].pc = "done", ![p].raised = TRUE,
                        ![p].faulted = TRUE]
  /\ UNCHANGED <<lt, asg, refreshes, targets, deployments, rollbacks, now, runs>>

\* ----------------------------------------------------- health checker

\* --timeout and --interval of the health check, in seconds; a run of
\* continuous_monitoring, which does not read the timeout, is given the
\* default.
Timeouts == {0, 1, 3}

DefaultTimeout == 300

Intervals == {1, 2}

\* --continuous: the duration of continuous_monitoring, in seconds.  0 is
\* falsy like the None of a run without --continuous; a negative duration
\* ends the loop before its first pass.
Durations == {-1, 0, 2, 20}

\* What requests.get(url) finds: no connection, a 503, a 200 whose body is no
\* JSON, a 200 whose body is a JSON object, a 200 whose body is the JSON array
\* [1].
Responses == {"ConnectionError", "503", "200 text", "200 object", "200 array"}

\* What response.json() raises for a body that is no JSON:
\* requests.exceptions.JSONDecodeError, a RequestException, from requests
\* 2.27 on, and a ValueError that is no RequestException before; the
\* installed requests decides.
JSONErrors == {"RequestException", "ValueError"}

\* check_health: "True" or "False" for the `healthy` it returns, "raise" for
\* an exception that is no RequestException.
check_health(response, json_error) ==
  CASE response = "ConnectionError" -> "False"
    [] response = "503" -> "False"
    [] response = "200 text" ->
         IF json_error = "RequestException" THEN "False" ELSE "raise"
    [] response \in {"200 object", "200 array"} -> "True"

\* print_health_data(data) raises: data is neither empty nor a dict, so
\* data.get is an AttributeError.
PrintRaises(response) == response = "200 array"

\* main of the health check: parse the arguments; `if args.continuous` picks
\* continuous_monitoring, else wait_for_healthy, which reads the clock.
health_main(p, timeout, interval, continuous, json_error) ==
  /\ run[p].pc \in {"idle", "done"}
  /\ runs < MaxRuns
  /\ runs' = runs + 1
  /\ run' = [run EXCEPT ![p] =
       [Idle EXCEPT !.pc = IF continuous # 0
                           THEN "continuous_monitoring" ELSE "wait_for_healthy",
                    !.kind = IF continuous # 0
                             THEN "continuous" ELSE "wait",
                    !.timeout = timeout, !.interval = interval,
                    !.duration = continuous,
                    !.start_time = now, !.json_error = json_error]]
  /\ UNCHANGED <<lt, asg, refreshes, targets, deployments, rollbacks, now,
                 faults>>

\* The exit code of main for the value a mode returned.
HealthExit(success) == IF success = "True" THEN 0 ELSE 1

\* One pass of wait_for_healthy's loop: count the attempt, read the clock,
\* return False past the timeout; else check_health, return True when
\* healthy, sleep for the interval when not.  An exception leaves the loop
\* and main exits with code 1.
wait_for_healthy(p) ==
  /\ run[p].pc = "wait_for_healthy"
  /\ LET elapsed == now - run[p].start_time
     IN  IF elapsed > run[p].timeout
         THEN /\ run' = [run EXCEPT ![p].pc = "done", ![p].attempts = @ + 1,
                                    ![p].elapsed = elapsed,
                                    ![p].result = "False",
                                    ![p].exit = HealthExit("False")]
              /\ UNCHANGED now
         ELSE \E response \in Responses :
                LET healthy == check_health(response, run[p].json_error)
                    next == [run[p] EXCEPT !.attempts = @ + 1,
                                           !.elapsed = elapsed,
                                           !.response = response]
                IN  IF healthy = "raise" \/ (healthy = "True" /\ PrintRaises(response))
                    THEN /\ run' = [run EXCEPT ![p] =
                              [next EXCEPT !.pc = "done", !.raised = TRUE,
                                           !.exit = 1]]
                         /\ UNCHANGED now
                    ELSE IF healthy = "True"
                    THEN /\ run' = [run EXCEPT ![p] =
                              [next EXCEPT !.pc = "done", !.result = "True",
                                           !.exit = HealthExit("True")]]
                         /\ UNCHANGED now
                    ELSE /\ run' = [run EXCEPT ![p] = next]
                         /\ now' = now + run[p].interval
  /\ UNCHANGED <<lt, asg, refreshes, targets, deployments, rollbacks, runs,
                 faults>>

\* `success_rate >= 95` for success_rate = ((check_count - failed_checks) /
\* check_count) * 100, which the division by check_count = 0 does not reach;
\* the float quotient and product round to 95.0 exactly when the rate is 95%.
SuccessRatePasses(check_count, failed_checks) ==
  100 * (check_count - failed_checks) >= 95 * check_count

\* One pass of continuous_monitoring's loop while the duration lasts: count
\* the check, check_health, count a failed check, sleep for the interval.
\* After the loop: the summary, which divides by check_count, and the return
\* of the comparison; main exits with code 0 or 1, and with code 1 on an
\* exception.
continuous_monitoring(p) ==
  /\ run[p].pc = "continuous_monitoring"
  /\ IF now - run[p].start_time < run[p].duration
     THEN \E response \in Responses :
            LET healthy == check_health(response, run[p].json_error)
                next == [run[p] EXCEPT !.check_count = @ + 1]
            IN  IF healthy = "raise"
                THEN /\ run' = [run EXCEPT ![p] =
                          [next EXCEPT !.pc = "done", !.raised = TRUE,
                                       !.exit = 1]]
                     /\ UNCHANGED now
                ELSE /\ run' = [run EXCEPT ![p] =
                          [next EXCEPT !.failed_checks =
                             IF healthy = "True" THEN @ ELSE @ + 1]]
                     /\ now' = now + run[p].interval
     ELSE /\ UNCHANGED now
          /\ IF run[p].check_count = 0
             THEN run' = [run EXCEPT ![p].pc = "done", ![p].raised = TRUE,
                                     ![p].exit = 1]
             ELSE LET success ==
                        IF SuccessRatePasses(run[p].check_count,
                                             run[p].failed_checks)
                        THEN "True" ELSE "False"
                  IN  run' = [run EXCEPT ![p].pc = "done",
                                         ![p].result = success,
                                         ![p].exit = HealthExit(success)]
  /\ UNCHANGED <<lt, asg, refreshes, targets, deployments, rollbacks, runs,
                 faults>>

\* The health gate and the health checker, run on their own.
InitHealth ==
  /\ lt = LaunchTemplate
  /\ asg = Len(LaunchTemplate)
  /\ refreshes = << >>
  /\ targets \in Healths
  /\ deployments = << >>
  /\ rollbacks = << >>
  /\ now = 0
  /\ run = [p \in Procs |-> Idle]
  /\ runs = 0
  /\ faults = 0

Verify(p) ==
  \/ verify_deployment_call(p)
  \/ verify_deployment(p)
  \/ verify_deployment_raises(p)

HealthCheck(p) ==
  \/ \E interval \in Intervals, continuous \in Durations,
        json_error \in JSONErrors :
       \E timeout \in IF continuous = 0 THEN Timeouts ELSE {DefaultTimeout} :
         health_main(p, timeout, interval, continuous, json_error)
  \/ wait_for_healthy(p)
  \/ continuous_monitoring(p)

NextHealth == \E p \in SeqProcs : Verify(p) \/ HealthCheck(p)

SpecHealth == InitHealth /\ [][NextHealth]_vars

\* ------------------------------------------------- concurrent runs

\* Two deploy runs, of two releases, started against the same environment
\* at the same time.
InitConcurrent ==
  /\ lt = LaunchTemplate
  /\ asg = Len(LaunchTemplate)
  /\ refreshes = << >>
  /\ targets = [healthy |-> 3, total |-> 3]
  /\ deployments = << >>
  /\ rollbacks = << >>
  /\ now = 1
  /\ run = [p \in Procs |->
              IF p = "A" THEN DeployRun("1.0", "app:1.0")
              ELSE DeployRun("2.0", "app:2.0")]
  /\ runs = Cardinality(Procs)
  /\ faults = 0

\* The clock moves on: datetime.now() is later at the next write than at the
\* last one.
tick ==
  /\ \E i \in 1..Len(deployments) : deployments[i].Key = now
  /\ now' = now + 1
  /\ UNCHANGED <<lt, asg, refreshes, targets, deployments, rollbacks, run,
                 runs, faults>>

NextConcurrent ==
  \/ \E p \in Procs : DeploySteps(p)
  \/ \E id \in 1..Len(refreshes) : refresh_progress(id)
  \/ \E id \in 1..Len(refreshes) : refresh_not_found(id)
  \/ tick

SpecConcurrent == InitConcurrent /\ [][NextConcurrent]_vars

\* ------------------------------------------------ consecutive rollbacks

\* Nothing runs yet, and one run may start for each process.
InitRollbacks ==
  /\ lt = LaunchTemplate
  /\ asg = Len(LaunchTemplate)
  /\ refreshes = << >>
  /\ targets = [healthy |-> 3, total |-> 3]
  /\ deployments \in Histories
  /\ rollbacks = << >>
  /\ now = Len(deployments)
  /\ run = [p \in Procs |-> Idle]
  /\ runs = MaxRuns - Cardinality(Procs)
  /\ faults = 0

\* A rollback without arguments is started when no other run is going on.
rollback_default(p) ==
  /\ run[p].pc = "idle"
  /\ \A q \in Procs : run[q].pc \in {"idle", "done"}
  /\ rollback_main(p, None, None)

\* Rollbacks without arguments, one after the other, and no deploy.
NextRollbacks ==
  \/ \E p \in Procs : rollback_default(p)
  \/ \E p \in Procs : RollbackSteps(p)
  \/ \E id \in 1..Len(refreshes) : refresh_progress(id)
  \/ \E id \in 1..Len(refreshes) : refresh_not_found(id)

SpecRollbacks == InitRollbacks /\ [][NextRollbacks]_vars

\* ------------------------------------------------------------ fairness

\* A step of a run in which no cloud call raises.
Proceeds(p) == (DeploySteps(p) \/ RollbackSteps(p)) /\ faults' = faults

\* A run that has started goes on with its next statement (nothing makes a
\* cloud call raise), and the auto scaling service moves every refresh on
\* until it has ended.
Fairness ==
  /\ \A p \in SeqProcs : WF_vars(Proceeds(p))
  /\ \A id \in 1..MaxRuns : WF_vars(refresh_progress(id))

SpecFair == Spec /\ Fairness


\* ------------------------------------------------------------ claims

DeployDone(p) == run[p].kind = "deploy" /\ run[p].pc = "done"

RollbackDone(p) == run[p].kind = "rollback" /\ run[p].pc = "done"

\* The objects the bucket gained since run p started (one orchestration runs
\* at a time).
StoredSince(p) == Len(deployments) + Len(rollbacks) - run[p].stored_before

\* The document is the body of an object.
Stored(objects, body) == \E i \in 1..Len(objects) : objects[i].data = body

C2_SuccessNeedsHealthGate ==
  \A p \in Procs :
    DeployDone(p) /\ run[p].exit = 0 =>
      run[p].refresh = "Successful" /\ run[p].verified = "True"

\* C3: a rollback run that has exited has written exactly one record of
\* action rollback that carries the outcome of the run.
C3_OneRecordPerRollback ==
  \A p \in Procs :
    RollbackDone(p) =>
      /\ Len(run[p].puts) = 1
      /\ Get(run[p].puts[1], "action") = "rollback"
      /\ "status" \in DOMAIN run[p].puts[1]

\* recent(limit) of the history: the documents of the readable objects,
\* newest first, cut to the limit newest objects.
RECURSIVE NewestFirst(_)
NewestFirst(objects) ==
  IF objects = << >> THEN << >>
  ELSE <<objects[Len(objects)]>> \o NewestFirst(SubSeq(objects, 1, Len(objects) - 1))

Recent(limit) == Readable(ListObjects(NewestFirst(deployments), limit))

\* The run took, or looked for, its target in a history it could list.
FromHistory(p) == run[p].kind = "rollback" /\ run[p].history = "read"

\* C4: a rollback without explicit target selects the (version, image) of
\* the newest record with status success among the HistoryLimit most recent
\* records of the history, and selects nothing when that window holds none.
C4_NewestSuccessInWindow ==
  \A p \in Procs :
    FromHistory(p) =>
      LET recent == Recent(HistoryLimit)
          i == FirstSuccess(recent)
      IN  IF i = 0 THEN run[p].selected = NoDeployment
          ELSE /\ run[p].target_version = recent[i].version
               /\ run[p].target_image = recent[i].image

\* The launch template version was built by deploy or rollback for the image.
BuiltFor(version, image) ==
  UserDataOf(version) \in {GenerateUserData(image), RollbackUserData(image)}

\* C5: a rollback creates a launch template version only when no version
\* that existed before was built for its target image.
C5_ReusesExistingVersion ==
  \A p \in Procs :
    run[p].kind = "rollback" /\ run[p].created # 0 =>
      \A i \in 1..(run[p].created - 1) : ~BuiltFor(lt[i], run[p].target_image)

\* The run was given exactly one of --previous-version and --image.
OneArgument(p) ==
  /\ run[p].kind = "rollback"
  /\ (run[p].version = None) # (run[p].image = None)

\* C6: a rollback given exactly one explicit value, in which no cloud call
\* raised, has not read the history and has not ended in an exception.
C6_OneArgumentResolves ==
  \A p \in Procs :
    RollbackDone(p) /\ OneArgument(p) /\ ~run[p].faulted =>
      run[p].history = None /\ ~run[p].raised

\* C7: a run whose history write raised has not ended through an uncaught
\* exception and exits with the code of its refresh: 0 after Successful, 1
\* after Failed, Cancelled or a refresh that was not found.
C7_WriteFailureKeepsOutcome ==
  \A p \in Procs :
    run[p].pc = "done" /\ run[p].put_raised > 0 =>
      /\ ~run[p].uncaught
      /\ run[p].refresh = "Successful" => run[p].exit = 0
      /\ run[p].refresh \in {"Failed", "Cancelled", "NotFound"} => run[p].exit = 1

\* C8: a deploy run whose monitor_refresh saw the refresh Failed or Cancelled
\* has, when it has exited, written exactly one record, with status failed,
\* has not run verify_deployment and exits with code 1.
C8_FailedRefresh ==
  \A p \in Procs :
    run[p].kind = "deploy" /\ run[p].refresh \in {"Failed", "Cancelled"} =>
      /\ run[p].verified = None
      /\ run[p].pc = "done" =>
           /\ Len(run[p].puts) = 1
           /\ StoredSince(p) = 1
           /\ run[p].puts[1].status = "failed"
           /\ Stored(deployments, run[p].puts[1])
           /\ run[p].exit = 1

\* A deploy run has exited after a Cancelled refresh.
C8_Witness ==
  \E p \in Procs :
    DeployDone(p) /\ run[p].refresh = "Cancelled" /\ run[p].exit = 1

\* Every registered target is healthy, and there is one at least.
FleetHealthy == targets.healthy = targets.total /\ targets.total > 0

\* C9: a deploy run of image I and version V whose refresh ended Successful,
\* with the fleet then fully healthy, has, when it has exited, appended
\* exactly one record under deployments/, with status success, image I and
\* version V, and exits with code 0.
C9_SuccessfulDeploy ==
  \A p \in Procs :
    DeployDone(p) /\ run[p].refresh = "Successful" /\ FleetHealthy =>
      /\ Len(run[p].puts) = 1
      /\ StoredSince(p) = 1
      /\ Stored(deployments, run[p].puts[1])
      /\ run[p].puts[1].status = "success"
      /\ run[p].puts[1].image = run[p].image
      /\ run[p].puts[1].version = run[p].version
      /\ run[p].exit = 0

\* A deploy run of app:2.0 has exited with code 0 after a Successful refresh
\* that left 3 of 3 targets healthy.
C9_Witness ==
  \E p \in Procs :
    /\ DeployDone(p) /\ run[p].refresh = "Successful" /\ FleetHealthy
    /\ run[p].image = "app:2.0" /\ run[p].exit = 0

\* C10: the target a rollback takes from the history is the (version, image)
\* of a stored document whose status is success; a run that was given no
\* target has one only from such a document.
C10_SelectsOnlySuccess ==
  \A p \in Procs :
    run[p].kind = "rollback" =>
      /\ run[p].selected # NoDeployment =>
           /\ Get(run[p].selected, "status") = "success"
           /\ Stored(deployments, run[p].selected)
           /\ run[p].target_version = run[p].selected.version
           /\ run[p].target_image = run[p].selected.image
      /\ NoTarget(run[p].version, run[p].image)
           /\ ~NoTarget(run[p].target_version, run[p].target_image)
           => run[p].selected # NoDeployment

\* A rollback took its target from a history whose newest documents are an
\* error, an object that cannot be read and a document without status.
C10_Witness ==
  \E p \in Procs :
    /\ FromHistory(p) /\ run[p].selected # NoDeployment
    /\ Len(deployments) = 4
    /\ deployments[4].data.status = "error"
    /\ ~deployments[3].readable
    /\ "status" \notin DOMAIN deployments[2].data
    /\ run[p].selected = deployments[1].data

\* C11: what monitor_refresh returns for a refresh that is no longer found
\* differs from what it returns for a Failed or Cancelled refresh, and so
\* does the status a deploy run records for it.
C11_NotFoundDistinct ==
  \A p \in Procs :
    run[p].refresh = "NotFound" =>
      /\ MonitorResult("NotFound") \notin
           {MonitorResult("Failed"), MonitorResult("Cancelled")}
      /\ DeployDone(p) /\ ~run[p].raised =>
           run[p].puts[1].status # DeployStatus(MonitorResult("Failed"))

\* C12: verify_deployment makes at most max_attempts polls; it returns True
\* exactly when a poll found every target healthy with at least one target,
\* which is then its last poll, and returns False only after max_attempts
\* polls of which none did.
C12_VerifyDeployment ==
  \A p \in Procs :
    run[p].kind = "verify" =>
      /\ run[p].polls <= max_attempts
      /\ run[p].pc = "v_poll" => run[p].healthy_polls = 0
      /\ run[p].pc = "done" /\ ~run[p].raised => run[p].result \in {"True", "False"}
      /\ run[p].result = "True" =>
           /\ run[p].healthy_polls = 1
           /\ targets.total > 0 /\ targets.healthy = targets.total
      /\ run[p].result = "False" =>
           run[p].healthy_polls = 0 /\ run[p].polls = max_attempts

\* verify_deployment returned False after max_attempts polls, the last of
\* which found a target group without targets.
C12_Witness ==
  \E p \in Procs :
    /\ run[p].kind = "verify" /\ run[p].result = "False"
    /\ run[p].polls = max_attempts /\ targets.total = 0

\* A healthy response: the request went through, the status code is 200 and
\* the body parses.
HealthyResponse(response) == response \in {"200 object", "200 array"}

\* wait_for_healthy is never later than timeout + interval after its start.
WaitBounded(p) == now - run[p].start_time <= run[p].timeout + run[p].interval

\* C13: wait_for_healthy has returned by timeout + interval after its start,
\* True when its last response was healthy and False (timeout) when every
\* response was unhealthy.
C13_WaitReturnsInTime ==
  \A p \in Procs :
    run[p].kind = "wait" =>
      /\ WaitBounded(p)
      /\ run[p].pc = "done" =>
           run[p].result =
             IF HealthyResponse(run[p].response) THEN "True" ELSE "False"

\* C14: in wait_for_healthy a response that is not healthy never ends the
\* wait before the deadline, and the wait ends with True at the first healthy
\* response: while it waits no response was healthy, after a healthy response
\* it has returned True, and it ends otherwise only past the timeout, with
\* False and without an exception.
C14_RetriesUntilDeadline ==
  \A p \in Procs :
    run[p].kind = "wait" =>
      /\ run[p].pc = "wait_for_healthy" => ~HealthyResponse(run[p].response)
      /\ HealthyResponse(run[p].response) =>
           run[p].pc = "done" /\ run[p].result = "True" /\ ~run[p].raised
      /\ run[p].pc = "done" /\ ~HealthyResponse(run[p].response) =>
           /\ ~run[p].raised
           /\ run[p].result = "False"
           /\ run[p].elapsed > run[p].timeout

\* C15: continuous_monitoring ends only when the duration is over, returns a
\* value, and returns True exactly when 100 * (checks - failed checks) >=
\* 95 * checks.
C15_ContinuousMonitoring ==
  \A p \in Procs :
    run[p].kind = "continuous" /\ run[p].pc = "done" =>
      /\ now - run[p].start_time >= run[p].duration
      /\ ~run[p].raised
      /\ run[p].result \in {"True", "False"}
      /\ run[p].result = "True" <=>
           100 * (run[p].check_count - run[p].failed_checks)
             >= 95 * run[p].check_count

\* The script embedded in a launch template version: the text its user data
\* encodes.
EmbeddedScript(version) ==
  LET user_data == UserDataOf(version)
  IN  CASE user_data.script = "deploy" ->
             DeployScript(Chars(user_data.image), Chars(Environment))
        [] user_data.script = "rollback" ->
             RollbackScript(Chars(user_data.image), Chars(Environment))
        [] user_data.script = "" -> << >>

Embeds(version, image) == Contains(EmbeddedScript(version), Chars(image))

\* C16: find_matching_launch_template(versions, image) returned the number of
\* the first of the versions whose embedded script contains the image, and
\* not-found (0) when none of them does.
C16_FirstMatchingVersion ==
  \A p \in Procs :
    run[p].kind = "rollback" /\ run[p].described > 0 =>
      LET versions == SubSeq(lt, 1, run[p].described)
          hits == {i \in 1..Len(versions) : Embeds(versions[i], run[p].target_image)}
      IN  IF hits = {} THEN run[p].matched = 0
          ELSE run[p].matched =
                 versions[CHOOSE i \in hits : \A j \in hits : i <= j].VersionNumber

\* C17: a record, once written, is not replaced by another: every record a
\* run wrote is still the record the store holds for it.
C17_NeverOverwrites ==
  \A p \in Procs :
    \A i \in 1..Len(run[p].puts) :
      Stored(deployments, run[p].puts[i]) \/ Stored(rollbacks, run[p].puts[i])

\* The run is a deploy or a rollback.
Orchestrates(p) == run[p].kind \in {"deploy", "rollback"}

\* C18: in a deploy or rollback run the launch template version is created
\* or located, then the group is pointed at it, then the refresh is started,
\* then polled: the group names an existing version, and is only ever
\* pointed at the version of a run; the run's refresh was started on the run's version
\* with the group pointed at it; polls come after the start.  No step changes
\* or removes a launch template version that exists.
C18_StepsInOrder ==
  /\ [](\A p \in Procs :
          Orchestrates(p) =>
            /\ asg \in 1..Len(lt)
            /\ run[p].lt_version \in 0..Len(lt)
            /\ run[p].pc \in {"d_update", "r_update"} =>
                 run[p].lt_version # 0 /\ run[p].refresh_id = 0
            /\ run[p].pc \in {"d_start", "r_start"} =>
                 asg = run[p].lt_version /\ run[p].refresh_id = 0
            /\ run[p].refresh_id # 0 =>
                 /\ run[p].lt_version # 0
                 /\ asg = run[p].lt_version
                 /\ refreshes[run[p].refresh_id].version = run[p].lt_version
            /\ run[p].polls > 0 => run[p].refresh_id # 0)
  /\ [][/\ Len(lt') >= Len(lt)
        /\ \A i \in 1..Len(lt) : lt'[i] = lt[i]
        /\ asg' # asg =>
             \E p \in Procs : run[p].lt_version # 0 /\ asg' = run[p].lt_version]_vars

\* A rollback has created a version, pointed the group at it, started its
\* refresh and polled it to Successful.
C18_Witness ==
  \E p \in Procs :
    /\ RollbackDone(p) /\ run[p].refresh = "Successful"
    /\ run[p].created = Len(lt) /\ asg = run[p].created
    /\ refreshes[run[p].refresh_id].version = run[p].created
    /\ run[p].polls > 0

\* The statuses at which monitor_refresh returns.
Terminal == {"Successful", "Failed", "Cancelled", "NotFound"}

\* C19: monitor_refresh is left at the first poll that finds the refresh
\* Successful, Failed, Cancelled or missing, and polls again before that;
\* with a refresh that ends, every deploy run and every rollback run that
\* started exits with an exit code.
C19_RunsExit ==
  /\ [](\A p \in Procs :
          Orchestrates(p) =>
            /\ run[p].pc \in {"d_monitor", "r_monitor"} => run[p].refresh = None
            /\ run[p].refresh # None =>
                 /\ run[p].refresh \in Terminal
                 /\ run[p].pc \notin {"d_monitor", "r_monitor"}
                 /\ refreshes[run[p].refresh_id].Status = run[p].refresh)
  /\ \A p \in SeqProcs :
       Orchestrates(p) ~> (run[p].pc = "done" /\ run[p].exit \in {0, 1})

\* A deploy run has exited after a poll that found the refresh in progress
\* and a poll that found it ended.
C19_Witness ==
  \E p \in Procs :
    /\ DeployDone(p) /\ run[p].polls > 1 /\ run[p].refresh \in Terminal
    /\ run[p].exit \in {0, 1}

\* No deployment of the history has the status success.
NoSuccess(history) ==
  \A i \in 1..Len(history) : Get(history[i], "status") # "success"

\* A rollback run started without a target has scanned the history.
ScannedHistory(p) ==
  /\ run[p].kind = "rollback"
  /\ NoTarget(run[p].version, run[p].image)
  /\ run[p].history # None

\* C20: a rollback without a target whose scanned history holds no successful
\* deployment (an empty history and one that could not be listed included)
\* returns failure at once: the step that scans the history leaves the launch
\* template, the group and the refreshes as they were, and the run has exited
\* with code 1 without creating a version, choosing one or starting a
\* refresh.
C20_NoTargetNoEffect ==
  /\ [](\A p \in SeqProcs :
          /\ ScannedHistory(p)
          /\ \/ run[p].history = "unread"
             \/ NoSuccess(get_deployment_history(HistoryLimit))
          => /\ run[p].pc = "done" /\ run[p].exit = 1
             /\ run[p].selected = NoDeployment
             /\ run[p].created = 0
             /\ run[p].lt_version = 0
             /\ run[p].refresh_id = 0
             /\ run[p].puts = << >>)
  /\ [][\A p \in SeqProcs :
          /\ run[p].pc = "r_history"
          /\ run'[p] # run[p]
          /\ \/ run'[p].history = "unread"
             \/ NoSuccess(get_deployment_history(HistoryLimit))
          => /\ lt' = lt /\ asg' = asg /\ refreshes' = refreshes
             /\ rollbacks' = rollbacks /\ deployments' = deployments
             /\ run'[p].pc = "done" /\ run'[p].exit = 1]_vars

\* A rollback without a target has read a history of two deployments, none
\* successful, and exited with code 1.
C20_Witness ==
  \E p \in SeqProcs :
    /\ ScannedHistory(p) /\ run[p].history = "read"
    /\ Len(deployments) = 2
    /\ NoSuccess(get_deployment_history(HistoryLimit))
    /\ run[p].pc = "done" /\ run[p].exit = 1

\* The statuses at which monitor_refresh returns False.
Unsuccessful == {"Failed", "Cancelled", "NotFound"}

\* C21: deploy never points the group back.  A deploy run that created a
\* version and whose refresh ended Failed or Cancelled or was missing has
\* exited with the group at the version it created, whose user data is the
\* one generated for its image, and with a record of status failed for its
\* version and image in the history; the version a run creates is never the
\* one the group names at that moment, and a deploy run sets the group to
\* nothing but the version it created.
C21_DeployNeverReverts ==
  /\ [](\A p \in SeqProcs :
          /\ DeployDone(p)
          /\ run[p].created # 0
          /\ run[p].refresh \in Unsuccessful
          => /\ asg = run[p].created
             /\ UserDataOf(lt[asg]) = GenerateUserData(run[p].image)
             /\ run[p].exit = 1
             /\ Stored(deployments,
                       DeploymentRecord(run[p].version, run[p].image,
                                        "failed")))
  /\ [][\A p \in SeqProcs :
          /\ run'[p].created # run[p].created => run'[p].created # asg
          /\ run[p].kind = "deploy" /\ run'[p].kind = "deploy" /\ asg' # asg
             => asg' = run[p].created /\ run[p].created # 0]_vars

\* A deploy run has exited after a Failed refresh; the group names the
\* version the run created, the last of the launch template.
C21_Witness ==
  \E p \in SeqProcs :
    /\ DeployDone(p) /\ run[p].refresh = "Failed"
    /\ run[p].created = Len(lt) /\ asg = run[p].created
    /\ Stored(deployments,
              DeploymentRecord(run[p].version, run[p].image, "failed"))

\* A rollback run without a target has listed and scanned the history.
Resolved(p) == ScannedHistory(p) /\ run[p].history = "read"

\* C22: a rollback run, whatever its outcome, writes nothing under
\* deployments/, and two rollbacks without a target that follow one another
\* with no deploy between them select the same deployment, hence the same
\* version and image.
C22_RollbackKeepsSelection ==
  /\ [](\A p \in Procs : \A q \in Procs :
          Resolved(p) /\ Resolved(q) =>
            /\ run[p].selected = run[q].selected
            /\ run[p].selected # NoDeployment =>
                 /\ run[p].target_version = run[q].target_version
                 /\ run[p].target_image = run[q].target_image)
  /\ [][/\ deployments' = deployments
        /\ \A p \in Procs :
             /\ run[p].kind = "rollback"
             /\ run'[p].puts # run[p].puts
             => /\ rollbacks' # rollbacks
                /\ Stored(rollbacks',
                          run'[p].puts[Len(run'[p].puts)])]_vars

\* Two rollbacks without a target have exited, the first with code 0 after
\* writing its record, and both selected the same successful deployment.
C22_Witness ==
  \E p \in Procs : \E q \in Procs :
    /\ p # q
    /\ Resolved(p) /\ Resolved(q)
    /\ RollbackDone(p) /\ run[p].exit = 0 /\ Len(run[p].puts) = 1
    /\ RollbackDone(q)
    /\ run[q].stored_before > run[p].stored_before
    /\ run[p].selected # NoDeployment
    /\ run[q].selected = run[p].selected

\* The run wrote a record with status success.
WroteSuccess(p) ==
  \E i \in 1..Len(run[p].puts) : Get(run[p].puts[i], "status") = "success"

\* C23: when two deploy runs interleave, a run that wrote a success record
\* for its image started its refresh on the version it created itself, and
\* the script of that version pulls the image.
C23_OwnVersionRefreshed ==
  \A p \in Procs :
    run[p].kind = "deploy" /\ WroteSuccess(p) =>
      /\ run[p].refresh_id # 0
      /\ refreshes[run[p].refresh_id].version = run[p].created
      /\ Embeds(lt[refreshes[run[p].refresh_id].version], run[p].image)
====
